---- MODULE Spec2Model ----
(***************************************************************************)
(* Sorting-cell digital twin: the TwinState state machine                  *)
(* (twin_core/state_model.py), the EventBus (twin_core/event_bus.py) and   *)
(* the DigitalTwin subscriber (twin_core/twin.py).                         *)
(*                                                                         *)
(* Five specifications:                                                    *)
(*   Spec     the TwinState object driven directly through its two         *)
(*            mutating methods, handle_event and check_blocked;            *)
(*   SpecBus  producers publishing to the EventBus, the run/_dispatch loop *)
(*            and the subscribers (the twin's handler first);              *)
(*   SpecTwin start-up (main.py or api/server.py), then the DigitalTwin    *)
(*            handler and the snapshot callers around the asyncio.Lock;    *)
(*   SpecLive the bus loop awaiting the twin's handler at the lock, other  *)
(*            subscribers and snapshot callers, with weak fairness;        *)
(*   SpecSim  the SortingCellSimulator tasks publishing to the bus that    *)
(*            dispatches to the twin.                                      *)
(* Time is counted in whole seconds.                                       *)
(***************************************************************************)
EXTENDS Integers, Sequences, FiniteSets, TLC

\* ------------------------------------------------------------------ bounds
NParts == 2
MaxTime == 1
MaxEvents == 5
MaxPublish == 2
MaxSubscribers == 3
NBusParts == 1
NReaders == 1

\* ------------------------------------------------------- program constants
BLOCKED_THRESHOLD_DEFAULT == 5

PartIds == 1..NParts
Times == 0..MaxTime
\* An instant later than every time of Times by more than the threshold: an
\* event or a check after a long silence.
LateTime == MaxTime + BLOCKED_THRESHOLD_DEFAULT + 1
\* Event timestamps: the early instants and the late one.
EventTimes == Times \cup { LateTime }
\* current_time values for a direct check_blocked call.
CheckTimes == Times \cup { LateTime }

EventType == {"PART_ARRIVED", "SENSOR_READ", "ACTUATOR_TRIGGERED", "PART_SORTED"}
CellState == {"IDLE", "RUNNING", "BLOCKED", "ERROR"}
PartStatus == {"CREATED", "ON_CONVEYOR", "AT_SENSOR", "READY_TO_SORT",
               "SORTED_OK", "SORTED_NOK"}

\* An Event: type, timestamp and the keys of data that the twin reads
\* (part_id, and outcome for PART_SORTED; "none" when the key is absent).
Event(type, timestamp, part_id, outcome) ==
    [type |-> type, timestamp |-> timestamp, part_id |-> part_id, outcome |-> outcome]

Outcomes(type) == IF type = "PART_SORTED" THEN {"ok", "nok"} ELSE {"none"}

EventsOf(ts, ids) ==
    UNION { { Event(ty, t, p, o) : t \in ts, p \in ids, o \in Outcomes(ty) }
            : ty \in EventType }

EventsAt(ts) == EventsOf(ts, PartIds)

NoEvent == Event("none", 0, 0, "none")

Part(part_id, status, last_timestamp) ==
    [part_id |-> part_id, status |-> status, last_timestamp |-> last_timestamp]

VARIABLES
    \* TwinState
    cell_state, parts, total_processed, total_rejected,
    last_event_time, system_start_time, blocked_threshold, error_flag,
    \* EventBus
    queue, subscribers,
    \* EventBus.run / _dispatch: position of the loop
    bus_pc, cur_event, idx, running,
    \* history
    last_handled, n_handled, rejected_seen, sorted_applied, sorted_nok,
    referenced, committed,
    published, dequeued, calls, failed_sub,
    \* start-up: the configuration loaded and the outcome of DigitalTwin(...)
    config_threshold, startup,
    \* DigitalTwin: the asyncio.Lock (locked, and the tasks waiting for it in
    \* arrival order), the position of _handle_event with its
    \* event, the position of each snapshot caller with its return value
    lock, waiters, hpc, h_event, rpc, ret,
    \* SortingCellSimulator: _part_counter, and for each _process_part task
    \* its position and its local is_ok
    part_counter, task_pc, task_ok

twin_vars == <<cell_state, parts, total_processed, total_rejected,
               last_event_time, system_start_time, blocked_threshold, error_flag>>
hist_twin_vars == <<last_handled, n_handled, rejected_seen, sorted_applied,
                    sorted_nok, referenced, committed>>
bus_vars == <<queue, subscribers, bus_pc, cur_event, idx, running>>
hist_bus_vars == <<published, dequeued, calls, failed_sub>>
start_vars == <<config_threshold, startup>>
lock_vars == <<lock, waiters, hpc, h_event, rpc, ret>>
sim_vars == <<part_counter, task_pc, task_ok>>
vars == <<twin_vars, hist_twin_vars, bus_vars, hist_bus_vars, start_vars, lock_vars, sim_vars>>

\* ============================================================== TwinState

\* The TwinState object as one value.
Self ==
    [cell_state |-> cell_state, parts |-> parts,
     total_processed |-> total_processed, total_rejected |-> total_rejected,
     last_event_time |-> last_event_time, system_start_time |-> system_start_time,
     blocked_threshold |-> blocked_threshold, error_flag |-> error_flag]

\* TwinState(): the dataclass defaults (DigitalTwin builds it with no argument).
TwinState ==
    [cell_state |-> "IDLE", parts |-> <<>>,
     total_processed |-> 0, total_rejected |-> 0,
     last_event_time |-> 0, system_start_time |-> 0,
     blocked_threshold |-> BLOCKED_THRESHOLD_DEFAULT, error_flag |-> FALSE]

\* _get_or_create_part creating the part as if PART_ARRIVED had been applied.
get_or_create_part_arrived(ps, part_id, timestamp) ==
    IF part_id \notin DOMAIN ps
    THEN [p \in (DOMAIN ps) \cup {part_id} |->
             IF p = part_id THEN Part(part_id, "ON_CONVEYOR", timestamp) ELSE ps[p]]
    ELSE ps

get_or_create_part(ps, part_id, timestamp) ==
    IF part_id \notin DOMAIN ps
    THEN [p \in (DOMAIN ps) \cup {part_id} |->
             IF p = part_id THEN Part(part_id, "CREATED", timestamp) ELSE ps[p]]
    ELSE ps

\* valid_flow with a sorted part accepting PART_SORTED again.
valid_flow_resort(status) ==
    CASE status = "CREATED"       -> {"PART_ARRIVED"}
      [] status = "ON_CONVEYOR"   -> {"SENSOR_READ"}
      [] status = "AT_SENSOR"     -> {"ACTUATOR_TRIGGERED"}
      [] status = "READY_TO_SORT" -> {"PART_SORTED"}
      [] status = "SORTED_OK"     -> {"PART_SORTED"}
      [] status = "SORTED_NOK"    -> {"PART_SORTED"}
      [] OTHER                    -> {}

\* valid_flow with a part on the conveyor also accepting ACTUATOR_TRIGGERED.
valid_flow_lenient(status) ==
    CASE status = "CREATED"       -> {"PART_ARRIVED"}
      [] status = "ON_CONVEYOR"   -> {"SENSOR_READ", "ACTUATOR_TRIGGERED"}
      [] status = "AT_SENSOR"     -> {"ACTUATOR_TRIGGERED"}
      [] status = "READY_TO_SORT" -> {"PART_SORTED"}
      [] status = "SORTED_OK"     -> {}
      [] status = "SORTED_NOK"    -> {}
      [] OTHER                    -> {}

valid_flow(status) ==
    CASE status = "CREATED"       -> {"PART_ARRIVED"}
      [] status = "ON_CONVEYOR"   -> {"SENSOR_READ"}
      [] status = "AT_SENSOR"     -> {"ACTUATOR_TRIGGERED"}
      [] status = "READY_TO_SORT" -> {"PART_SORTED"}
      [] status = "SORTED_OK"     -> {}
      [] status = "SORTED_NOK"    -> {}
      [] OTHER                    -> {}

validate_sequence(part, event_type) == event_type \in valid_flow(part.status)

\* check_blocked that puts the cell back to RUNNING when there was activity.
check_blocked_recovering(s, current_time) ==
    IF s.last_event_time = 0
    THEN s
    ELSE IF (current_time - s.last_event_time) > s.blocked_threshold
         THEN [s EXCEPT !.cell_state = "BLOCKED"]
         ELSE [s EXCEPT !.cell_state = "RUNNING"]

check_blocked(s, current_time) ==
    IF s.last_event_time = 0
    THEN s
    ELSE IF (current_time - s.last_event_time) > s.blocked_threshold
         THEN [s EXCEPT !.cell_state = "BLOCKED"]
         ELSE s

\* apply_transition with SENSOR_READ moving the part straight to READY_TO_SORT.
apply_transition_skip(s, event) ==
    LET pid == event.part_id
        t == event.timestamp
    IN  CASE event.type = "PART_ARRIVED" ->
               [s EXCEPT !.parts[pid].status = "ON_CONVEYOR",
                         !.parts[pid].last_timestamp = t]
          [] event.type = "SENSOR_READ" ->
               [s EXCEPT !.parts[pid].status = "READY_TO_SORT",
                         !.parts[pid].last_timestamp = t]
          [] event.type = "ACTUATOR_TRIGGERED" ->
               [s EXCEPT !.parts[pid].status = "READY_TO_SORT",
                         !.parts[pid].last_timestamp = t]
          [] event.type = "PART_SORTED" ->
               IF event.outcome = "ok"
               THEN [s EXCEPT !.parts[pid].status = "SORTED_OK",
                              !.total_processed = @ + 1,
                              !.parts[pid].last_timestamp = t]
               ELSE [s EXCEPT !.parts[pid].status = "SORTED_NOK",
                              !.total_processed = @ + 1,
                              !.total_rejected = @ + 1,
                              !.parts[pid].last_timestamp = t]
          [] OTHER -> s

\* apply_transition with the outcome test inverted.
apply_transition_inverted(s, event) ==
    LET pid == event.part_id
        t == event.timestamp
    IN  CASE event.type = "PART_ARRIVED" ->
               [s EXCEPT !.parts[pid].status = "ON_CONVEYOR",
                         !.parts[pid].last_timestamp = t]
          [] event.type = "SENSOR_READ" ->
               [s EXCEPT !.parts[pid].status = "AT_SENSOR",
                         !.parts[pid].last_timestamp = t]
          [] event.type = "ACTUATOR_TRIGGERED" ->
               [s EXCEPT !.parts[pid].status = "READY_TO_SORT",
                         !.parts[pid].last_timestamp = t]
          [] event.type = "PART_SORTED" ->
               IF event.outcome # "ok"
               THEN [s EXCEPT !.parts[pid].status = "SORTED_OK",
                              !.total_processed = @ + 1,
                              !.parts[pid].last_timestamp = t]
               ELSE [s EXCEPT !.parts[pid].status = "SORTED_NOK",
                              !.total_processed = @ + 1,
                              !.total_rejected = @ + 1,
                              !.parts[pid].last_timestamp = t]
          [] OTHER -> s

\* apply_transition with the nok branch forgetting total_processed.
apply_transition_nok_uncounted(s, event) ==
    LET pid == event.part_id
        t == event.timestamp
    IN  CASE event.type = "PART_ARRIVED" ->
               [s EXCEPT !.parts[pid].status = "ON_CONVEYOR",
                         !.parts[pid].last_timestamp = t]
          [] event.type = "SENSOR_READ" ->
               [s EXCEPT !.parts[pid].status = "AT_SENSOR",
                         !.parts[pid].last_timestamp = t]
          [] event.type = "ACTUATOR_TRIGGERED" ->
               [s EXCEPT !.parts[pid].status = "READY_TO_SORT",
                         !.parts[pid].last_timestamp = t]
          [] event.type = "PART_SORTED" ->
               IF event.outcome = "ok"
               THEN [s EXCEPT !.parts[pid].status = "SORTED_OK",
                              !.total_processed = @ + 1,
                              !.parts[pid].last_timestamp = t]
               ELSE [s EXCEPT !.parts[pid].status = "SORTED_NOK",
                              !.total_rejected = @ + 1,
                              !.parts[pid].last_timestamp = t]
          [] OTHER -> s

\* Lines 125-148 of handle_event: the transition and the counters.
apply_transition(s, event) ==
    LET pid == event.part_id
        t == event.timestamp
    IN  CASE event.type = "PART_ARRIVED" ->
               [s EXCEPT !.parts[pid].status = "ON_CONVEYOR",
                         !.parts[pid].last_timestamp = t]
          [] event.type = "SENSOR_READ" ->
               [s EXCEPT !.parts[pid].status = "AT_SENSOR",
                         !.parts[pid].last_timestamp = t]
          [] event.type = "ACTUATOR_TRIGGERED" ->
               [s EXCEPT !.parts[pid].status = "READY_TO_SORT",
                         !.parts[pid].last_timestamp = t]
          [] event.type = "PART_SORTED" ->
               IF event.outcome = "ok"
               THEN [s EXCEPT !.parts[pid].status = "SORTED_OK",
                              !.total_processed = @ + 1,
                              !.parts[pid].last_timestamp = t]
               ELSE [s EXCEPT !.parts[pid].status = "SORTED_NOK",
                              !.total_processed = @ + 1,
                              !.total_rejected = @ + 1,
                              !.parts[pid].last_timestamp = t]
          [] OTHER -> s

\* start_if_idle recording the start time but leaving cell_state alone.
start_if_idle_stays(s, t) ==
    IF s.cell_state = "IDLE"
    THEN [s EXCEPT !.system_start_time = t]
    ELSE s

\* Lines 105-108 of handle_event: the first event starts the cell.
start_if_idle(s, t) ==
    IF s.cell_state = "IDLE"
    THEN [s EXCEPT !.cell_state = "RUNNING", !.system_start_time = t]
    ELSE s

\* reject without raising error_flag.
reject_no_flag(s) == [s EXCEPT !.cell_state = "ERROR"]

\* Lines 114-123 of handle_event: the rejection branch.
reject(s) == [s EXCEPT !.cell_state = "ERROR", !.error_flag = TRUE]

\* handle_event_begin that does not record the event's time.
handle_event_begin_unstamped(s, event) ==
    LET t == event.timestamp
        s2 == start_if_idle(s, t)
    IN  [s2 EXCEPT !.parts = get_or_create_part(s2.parts, event.part_id, t)]

\* Lines 99-111 of handle_event: record the event's time, start the cell on
\* the first event, find or create the part.
handle_event_begin(s, event) ==
    LET t == event.timestamp
        s1 == [s EXCEPT !.last_event_time = t]
        s2 == start_if_idle(s1, t)
    IN  [s2 EXCEPT !.parts = get_or_create_part(s2.parts, event.part_id, t)]

\* Lines 113-159 of handle_event: validate, then reject and return, or apply
\* the transition and call check_blocked with the event's time.
handle_event_finish(s, event) ==
    LET part == s.parts[event.part_id]
    IN  IF ~validate_sequence(part, event.type)
        THEN reject(s)
        ELSE check_blocked(apply_transition(s, event), event.timestamp)

handle_event(s, event) ==
    handle_event_finish(handle_event_begin(s, event), event)

snapshot(s) ==
    [cell_state |-> s.cell_state,
     total_processed |-> s.total_processed,
     total_rejected |-> s.total_rejected,
     parts_in_system |-> Cardinality(DOMAIN s.parts),
     error |-> s.error_flag]

\* A quotient of two numbers, kept exact as numerator and denominator; the
\* division that produces it raises ZeroDivisionError when den = 0.
Quotient(num, den) == [num |-> num, den |-> den]

\* The float 0.0.
Zero == Quotient(0, 1)

\* metrics_snapshot dividing by the observation window whenever it is not
\* negative.
metrics_snapshot_unguarded(s) ==
    LET observation_window ==
            IF s.system_start_time = 0 \/ s.last_event_time <= s.system_start_time
            THEN 0
            ELSE s.last_event_time - s.system_start_time
        throughput ==
            IF observation_window >= 0
            THEN Quotient(s.total_processed, observation_window)
            ELSE Zero
        reject_rate ==
            IF s.total_processed > 0
            THEN Quotient(s.total_rejected, s.total_processed)
            ELSE Zero
    IN  [total_processed |-> s.total_processed,
         total_rejected |-> s.total_rejected,
         reject_rate |-> reject_rate,
         throughput |-> throughput,
         observation_window |-> observation_window]

metrics_snapshot(s) ==
    LET observation_window ==
            IF s.system_start_time = 0 \/ s.last_event_time <= s.system_start_time
            THEN 0
            ELSE s.last_event_time - s.system_start_time
        throughput ==
            IF observation_window > 0
            THEN Quotient(s.total_processed, observation_window)
            ELSE Zero
        reject_rate ==
            IF s.total_processed > 0
            THEN Quotient(s.total_rejected, s.total_processed)
            ELSE Zero
    IN  [total_processed |-> s.total_processed,
         total_rejected |-> s.total_rejected,
         reject_rate |-> reject_rate,
         throughput |-> throughput,
         observation_window |-> observation_window]

\* The status validate_sequence sees for the event's part: the part's status,
\* CREATED for a part_id not seen before.
StatusSeen(ps, part_id) ==
    IF part_id \in DOMAIN ps THEN ps[part_id].status ELSE "CREATED"

Accepted(s, event) ==
    validate_sequence(Part(event.part_id, StatusSeen(s.parts, event.part_id), 0),
                      event.type)

SetTwin(s) ==
    /\ cell_state' = s.cell_state
    /\ parts' = s.parts
    /\ total_processed' = s.total_processed
    /\ total_rejected' = s.total_rejected
    /\ last_event_time' = s.last_event_time
    /\ system_start_time' = s.system_start_time
    /\ blocked_threshold' = s.blocked_threshold
    /\ error_flag' = s.error_flag

\* The end of a call of handle_event(event) that leaves the state after: the
\* state and the history of the call (ok: the event was accepted).
RecordHandled(event, after, ok) ==
        /\ SetTwin(after)
        /\ committed' = after
        /\ last_handled' = event
        /\ n_handled' = n_handled + 1
        /\ rejected_seen' = (rejected_seen \/ ~ok)
        /\ sorted_applied' = sorted_applied +
              (IF ok /\ event.type = "PART_SORTED" THEN 1 ELSE 0)
        /\ sorted_nok' = sorted_nok +
              (IF ok /\ event.type = "PART_SORTED" /\ event.outcome = "nok"
               THEN 1 ELSE 0)
        /\ referenced' = referenced \cup {event.part_id}

\* One call of TwinState.handle_event(event), with the history it leaves.
DoHandleEvent(event) ==
    \E after \in {handle_event(Self, event)}, ok \in {Accepted(Self, event)} :
        RecordHandled(event, after, ok)

\* ================================================== Spec: TwinState alone

InitBus ==
    /\ queue = <<>>
    /\ subscribers = <<"twin">>
    /\ bus_pc = "get"
    /\ cur_event = NoEvent
    /\ idx = 0
    /\ running = {}
    /\ published = <<>>
    /\ dequeued = <<>>
    /\ failed_sub = 0
    /\ calls = <<>>

InitHist ==
    /\ last_handled = NoEvent
    /\ n_handled = 0
    /\ rejected_seen = FALSE
    /\ sorted_applied = 0
    /\ sorted_nok = 0
    /\ referenced = {}
    /\ committed = TwinState

InitTwin ==
    /\ cell_state = TwinState.cell_state
    /\ parts = TwinState.parts
    /\ total_processed = TwinState.total_processed
    /\ total_rejected = TwinState.total_rejected
    /\ last_event_time = TwinState.last_event_time
    /\ system_start_time = TwinState.system_start_time
    /\ blocked_threshold = TwinState.blocked_threshold
    /\ error_flag = TwinState.error_flag

Readers == 1..NReaders

NoSnapshot == [kind |-> "none", value |-> {}]

\* The DigitalTwin just constructed: lock free, no handler call and no
\* snapshot call in progress.
InitLock ==
    /\ lock = FALSE
    /\ waiters = <<>>
    /\ hpc = "idle"
    /\ h_event = NoEvent
    /\ rpc = [r \in Readers |-> "idle"]
    /\ ret = [r \in Readers |-> NoSnapshot]

\* Components built as api/server.py builds them: DigitalTwin(bus), no
\* configuration file read.
InitServer ==
    /\ config_threshold = BLOCKED_THRESHOLD_DEFAULT
    /\ startup = "constructed"

\* SortingCellSimulator.__init__: no part generated, no task started.
InitSim ==
    /\ part_counter = 0
    /\ task_pc = <<>>
    /\ task_ok = <<>>

Init ==
    /\ InitTwin
    /\ InitHist
    /\ InitBus
    /\ InitServer
    /\ InitLock
    /\ InitSim

\* handle_event called with the next event; timestamps come from a monotonic
\* clock and events arrive in the order they were stamped, so they never
\* decrease from one call to the next.
HandleEvent ==
    \E event \in EventsAt(EventTimes) :
        /\ n_handled < MaxEvents
        /\ event.timestamp >= last_event_time
        /\ DoHandleEvent(event)
        /\ UNCHANGED <<bus_vars, hist_bus_vars, start_vars, lock_vars, sim_vars>>

CheckBlocked ==
    \E current_time \in CheckTimes :
        /\ \E after \in {check_blocked(Self, current_time)} : SetTwin(after)
        /\ UNCHANGED hist_twin_vars
        /\ UNCHANGED <<bus_vars, hist_bus_vars, start_vars, lock_vars, sim_vars>>

Next == HandleEvent \/ CheckBlocked

Spec == Init /\ [][Next]_vars

\* ================================================================ EventBus

\* A put that places the event at the head of the queue.
queue_put_front(q, event) == <<event>> \o q

\* asyncio.Queue.put on the unbounded queue of __init__: append at the tail.
queue_put(q, event) == Append(q, event)

\* A get that takes the newest event instead of the oldest.
queue_get_newest(q) ==
    [event |-> q[Len(q)], rest |-> SubSeq(q, 1, Len(q) - 1)]

\* asyncio.Queue.get in run: remove and return the head.
queue_get(q) == [event |-> Head(q), rest |-> Tail(q)]

\* A loop that steps over every second subscriber.
next_callback_skipping(i) == i + 2

\* _dispatch: "for callback in self._subscribers" moves to the next entry.
next_callback(i) == i + 1

\* A bus that swallows the failure and goes on with the next subscriber.
callback_raised_caught(i) == [bus_pc |-> "dispatch", idx |-> i + 1]

\* A callback raised: nothing in _dispatch or run catches it, the run
\* coroutine ends with the exception.
callback_raised(i) == [bus_pc |-> "halted", idx |-> i]

\* loop.time() of the producers, in ticks: strictly increasing over publishes.
Now == Len(published) + 1

\* EventBus.subscribe(callback), at any moment, any number of times with the
\* same callback.
Subscribe ==
    /\ Len(subscribers) < MaxSubscribers
    /\ subscribers' = Append(subscribers, "probe")
    /\ UNCHANGED <<queue, bus_pc, cur_event, idx, running>>
    /\ UNCHANGED <<twin_vars, hist_twin_vars, hist_bus_vars, start_vars, lock_vars, sim_vars>>

\* EventBus.publish(event) by any producer, for the parts 1..NBusParts.
Publish ==
    \E event \in EventsOf({Now}, 1..NBusParts) :
        /\ Len(published) < MaxPublish
        /\ queue' = queue_put(queue, event)
        /\ published' = Append(published, event)
        /\ UNCHANGED <<subscribers, bus_pc, cur_event, idx, running, dequeued, calls, failed_sub>>
        /\ UNCHANGED <<twin_vars, hist_twin_vars, start_vars, lock_vars, sim_vars>>

\* run: event = await self._queue.get(), then enter _dispatch(event).
RunGet ==
    /\ bus_pc = "get"
    /\ queue # <<>>
    /\ cur_event' = queue_get(queue).event
    /\ queue' = queue_get(queue).rest
    /\ dequeued' = Append(dequeued, queue_get(queue).event)
    /\ idx' = 1
    /\ bus_pc' = "dispatch"
    /\ UNCHANGED <<subscribers, running, published, calls, failed_sub>>
    /\ UNCHANGED <<twin_vars, hist_twin_vars, start_vars, lock_vars, sim_vars>>

\* The loop after callback i has finished: the next entry of the subscriber
\* list if there is one (the list may have grown meanwhile), else the for loop
\* is exhausted and run is back at self._queue.get().
after_callback(i) ==
    IF next_callback(i) <= Len(subscribers)
    THEN [bus_pc |-> "dispatch", idx |-> next_callback(i), cur_event |-> cur_event]
    ELSE [bus_pc |-> "get", idx |-> 0, cur_event |-> NoEvent]

\* _dispatch reaches DigitalTwin._handle_event: the lock is free whenever the
\* bus gets to run, so the handler runs to its end without suspending.
InvokeTwin ==
    /\ bus_pc = "dispatch"
    /\ idx <= Len(subscribers)
    /\ subscribers[idx] = "twin"
    /\ calls' = Append(calls, [event |-> cur_event, sub |-> idx])
    /\ DoHandleEvent(cur_event)
    /\ idx' = after_callback(idx).idx
    /\ bus_pc' = after_callback(idx).bus_pc
    /\ cur_event' = after_callback(idx).cur_event
    /\ UNCHANGED <<queue, subscribers, running, published, dequeued, failed_sub>>
    /\ UNCHANGED <<sim_vars, start_vars, waiters, lock_vars, sim_vars>>

\* _dispatch starts another subscriber's callback and awaits it.
InvokeProbe ==
    /\ bus_pc = "dispatch"
    /\ idx <= Len(subscribers)
    /\ subscribers[idx] = "probe"
    /\ calls' = Append(calls, [event |-> cur_event, sub |-> idx])
    /\ running' = running \cup {idx}
    /\ bus_pc' = "await"
    /\ UNCHANGED <<queue, subscribers, cur_event, idx, published, dequeued, failed_sub>>
    /\ UNCHANGED <<twin_vars, hist_twin_vars, start_vars, lock_vars, sim_vars>>

\* The awaited callback returns.
CallbackReturn ==
    /\ bus_pc = "await"
    /\ running' = running \ {idx}
    /\ idx' = after_callback(idx).idx
    /\ bus_pc' = after_callback(idx).bus_pc
    /\ cur_event' = after_callback(idx).cur_event
    /\ UNCHANGED <<queue, subscribers, published, dequeued, calls, failed_sub>>
    /\ UNCHANGED <<twin_vars, hist_twin_vars, start_vars, lock_vars, sim_vars>>

\* The awaited callback raises.
CallbackRaise ==
    /\ bus_pc = "await"
    /\ running' = running \ {idx}
    /\ idx' = callback_raised(idx).idx
    /\ bus_pc' = callback_raised(idx).bus_pc
    /\ failed_sub' = idx
    /\ UNCHANGED <<queue, subscribers, cur_event, published, dequeued, calls>>
    /\ UNCHANGED <<twin_vars, hist_twin_vars, start_vars, lock_vars, sim_vars>>

NextBus ==
    \/ Subscribe
    \/ Publish
    \/ RunGet
    \/ InvokeTwin
    \/ InvokeProbe
    \/ CallbackReturn
    \/ CallbackRaise

SpecBus == Init /\ [][NextBus]_vars

\* ============================================ SpecTwin: start-up and lock

\* blocked_threshold values a configuration file may hold (load_config
\* returns the default when there is no file or no such key).
ConfigThresholds == {2, BLOCKED_THRESHOLD_DEFAULT}

\* The parameters DigitalTwin.__init__ declares besides self.
DigitalTwinParams == {"bus"}

\* DigitalTwin(...) called with the given argument names: a name that
\* __init__ does not declare makes the call raise TypeError before the body
\* runs; otherwise the body builds TwinState() and subscribes the handler.
DigitalTwin_init(args) ==
    IF args \subseteq DigitalTwinParams
    THEN [startup |-> "constructed", state |-> TwinState,
          subscribers |-> Append(subscribers, "twin")]
    ELSE [startup |-> "TypeError", state |-> Self, subscribers |-> subscribers]

\* parts_snapshot: one {part_id, status, last_timestamp} entry per part.
parts_snapshot(s) == { s.parts[p] : p \in DOMAIN s.parts }

\* What a snapshot method of DigitalTwin returns from the state s.
SnapshotOf(kind, s) ==
    IF kind = "state" THEN snapshot(s) ELSE parts_snapshot(s)

\* A lock that lets everybody in.
can_acquire_always(l) == TRUE

\* async with self._lock: the lock (locked or not, asyncio.Lock records no
\* owner) is taken only when it is not locked.
can_acquire(l) == ~l

\* The handler among the tasks that wait for the lock; the snapshot callers
\* are the tasks 1..NReaders.
HandlerTask == 0

\* A lock that a newcomer may take ahead of the tasks already waiting.
no_waiters_ignored(w) == TRUE

\* asyncio.Lock.acquire takes an unlocked lock at once only when no task is
\* waiting for it; otherwise the caller joins the waiters, and release wakes
\* the first of them.
no_waiters(w) == w = <<>>

\* Nothing is built yet; the configuration value is whatever the file holds.
InitTwinSpec ==
    /\ InitTwin
    /\ InitHist
    /\ queue = <<>>
    /\ subscribers = <<>>
    /\ bus_pc = "get"
    /\ cur_event = NoEvent
    /\ idx = 0
    /\ running = {}
    /\ published = <<>>
    /\ dequeued = <<>>
    /\ failed_sub = 0
    /\ calls = <<>>
    /\ config_threshold \in ConfigThresholds
    /\ startup = "none"
    /\ InitLock
    /\ InitSim

\* The start-up step that constructs the twin with the given argument names.
StartWith(args) ==
    /\ \E built \in {DigitalTwin_init(args)} :
          /\ startup' = built.startup
          /\ subscribers' = built.subscribers
          /\ SetTwin(built.state)
    /\ UNCHANGED <<config_threshold, hist_twin_vars, hist_bus_vars, lock_vars, sim_vars>>
    /\ UNCHANGED <<queue, bus_pc, cur_event, idx, running>>

\* main.py main_async: DigitalTwin(bus, blocked_threshold=config.twin.blocked_threshold).
MainStart ==
    /\ startup = "none"
    /\ StartWith({"bus", "blocked_threshold"})

\* api/server.py: DigitalTwin(bus).
ServerStart ==
    /\ startup = "none"
    /\ StartWith({"bus"})

\* The bus calls _handle_event(event): the call waits at "async with".
Deliver ==
    \E event \in EventsOf({n_handled + 1}, 1..NBusParts) :
        /\ startup = "constructed"
        /\ hpc = "idle"
        /\ n_handled < MaxPublish
        /\ hpc' = "waiting"
        /\ h_event' = event
        /\ UNCHANGED <<twin_vars, hist_twin_vars, bus_vars, hist_bus_vars>>
        /\ UNCHANGED <<sim_vars, start_vars, waiters, lock, rpc, ret>>

\* The handler finds the lock unlocked with nobody waiting and takes it.
HandlerAcquire ==
    /\ hpc = "waiting"
    /\ can_acquire(lock)
    /\ no_waiters(waiters)
    /\ lock' = TRUE
    /\ hpc' = "begin"
    /\ UNCHANGED <<twin_vars, hist_twin_vars, bus_vars, hist_bus_vars>>
    /\ UNCHANGED <<sim_vars, start_vars, waiters, h_event, rpc, ret>>

\* The handler cannot take the lock at once and joins the waiters.
HandlerEnqueue ==
    /\ hpc = "waiting"
    /\ ~(can_acquire(lock) /\ no_waiters(waiters))
    /\ waiters' = Append(waiters, HandlerTask)
    /\ hpc' = "queued"
    /\ UNCHANGED <<twin_vars, hist_twin_vars, bus_vars, hist_bus_vars>>
    /\ UNCHANGED <<sim_vars, start_vars, lock, h_event, rpc, ret>>

\* The handler, first of the waiters, was woken by a release: it leaves the
\* waiters and takes the lock.
HandlerWake ==
    /\ hpc = "queued"
    /\ can_acquire(lock)
    /\ waiters # <<>>
    /\ Head(waiters) = HandlerTask
    /\ waiters' = Tail(waiters)
    /\ lock' = TRUE
    /\ hpc' = "begin"
    /\ UNCHANGED <<twin_vars, hist_twin_vars, bus_vars, hist_bus_vars>>
    /\ UNCHANGED <<sim_vars, start_vars, h_event, rpc, ret>>

\* First half of self._state.handle_event(event), inside the lock.
HandlerBegin ==
    /\ hpc = "begin"
    /\ \E mid \in {handle_event_begin(Self, h_event)} : SetTwin(mid)
    /\ hpc' = "finish"
    /\ UNCHANGED <<hist_twin_vars, bus_vars, hist_bus_vars>>
    /\ UNCHANGED <<sim_vars, start_vars, waiters, lock, h_event, rpc, ret>>

\* Second half of self._state.handle_event(event), inside the lock.
HandlerFinish ==
    /\ hpc = "finish"
    /\ \E after \in {handle_event_finish(Self, h_event)},
          ok \in {Accepted(Self, h_event)} :
          RecordHandled(h_event, after, ok)
    /\ hpc' = "release"
    /\ UNCHANGED <<bus_vars, hist_bus_vars>>
    /\ UNCHANGED <<sim_vars, start_vars, waiters, lock, h_event, rpc, ret>>

\* Leaving "async with": the lock is released, _handle_event returns.
HandlerRelease ==
    /\ hpc = "release"
    /\ lock' = FALSE
    /\ hpc' = "idle"
    /\ h_event' = NoEvent
    /\ UNCHANGED <<twin_vars, hist_twin_vars, bus_vars, hist_bus_vars>>
    /\ UNCHANGED <<sim_vars, start_vars, waiters, rpc, ret>>

\* A caller of get_state_snapshot or get_parts_snapshot enters "async with"
\* and takes the lock at once.
ReaderAcquire ==
    \E r \in Readers :
        /\ startup = "constructed"
        /\ rpc[r] = "idle"
        /\ can_acquire(lock)
        /\ no_waiters(waiters)
        /\ lock' = TRUE
        /\ rpc' = [rpc EXCEPT ![r] = "locked"]
        /\ UNCHANGED <<twin_vars, hist_twin_vars, bus_vars, hist_bus_vars>>
        /\ UNCHANGED <<sim_vars, start_vars, waiters, hpc, h_event, ret>>

\* A caller enters "async with", cannot take the lock at once and joins the
\* waiters.
ReaderEnqueue ==
    \E r \in Readers :
        /\ startup = "constructed"
        /\ rpc[r] = "idle"
        /\ ~(can_acquire(lock) /\ no_waiters(waiters))
        /\ waiters' = Append(waiters, r)
        /\ rpc' = [rpc EXCEPT ![r] = "queued"]
        /\ UNCHANGED <<twin_vars, hist_twin_vars, bus_vars, hist_bus_vars>>
        /\ UNCHANGED <<sim_vars, start_vars, lock, hpc, h_event, ret>>

\* A caller, first of the waiters, was woken by a release and takes the lock.
ReaderWake ==
    \E r \in Readers :
        /\ rpc[r] = "queued"
        /\ can_acquire(lock)
        /\ waiters # <<>>
        /\ Head(waiters) = r
        /\ waiters' = Tail(waiters)
        /\ lock' = TRUE
        /\ rpc' = [rpc EXCEPT ![r] = "locked"]
        /\ UNCHANGED <<twin_vars, hist_twin_vars, bus_vars, hist_bus_vars>>
        /\ UNCHANGED <<sim_vars, start_vars, hpc, h_event, ret>>

\* The body of the method: self._state.snapshot() or .parts_snapshot().
ReaderSnapshot ==
    \E r \in Readers, kind \in {"state", "parts"} :
        /\ rpc[r] = "locked"
        /\ ret' = [ret EXCEPT ![r] = [kind |-> kind, value |-> SnapshotOf(kind, Self)]]
        /\ rpc' = [rpc EXCEPT ![r] = "release"]
        /\ UNCHANGED <<twin_vars, hist_twin_vars, bus_vars, hist_bus_vars>>
        /\ UNCHANGED <<sim_vars, start_vars, waiters, lock, hpc, h_event>>

\* Leaving "async with": the lock is released and the value goes to the caller.
ReaderRelease ==
    \E r \in Readers :
        /\ rpc[r] = "release"
        /\ lock' = FALSE
        /\ rpc' = [rpc EXCEPT ![r] = "idle"]
        /\ ret' = [ret EXCEPT ![r] = NoSnapshot]
        /\ UNCHANGED <<twin_vars, hist_twin_vars, bus_vars, hist_bus_vars>>
        /\ UNCHANGED <<sim_vars, start_vars, waiters, hpc, h_event>>

NextTwin ==
    \/ MainStart
    \/ ServerStart
    \/ Deliver
    \/ HandlerAcquire
    \/ HandlerEnqueue
    \/ HandlerWake
    \/ HandlerBegin
    \/ HandlerFinish
    \/ HandlerRelease
    \/ ReaderAcquire
    \/ ReaderEnqueue
    \/ ReaderWake
    \/ ReaderSnapshot
    \/ ReaderRelease

SpecTwin == InitTwinSpec /\ [][NextTwin]_vars

\* =========================== SpecLive: bus, twin handler and lock, fair

\* _dispatch reaches DigitalTwin._handle_event and awaits it: the handler
\* starts and arrives at "async with self._lock".
DispatchTwin ==
    /\ bus_pc = "dispatch"
    /\ idx <= Len(subscribers)
    /\ subscribers[idx] = "twin"
    /\ hpc = "idle"
    /\ calls' = Append(calls, [event |-> cur_event, sub |-> idx])
    /\ hpc' = "waiting"
    /\ h_event' = cur_event
    /\ bus_pc' = "await_twin"
    /\ UNCHANGED <<queue, subscribers, cur_event, idx, running, published, dequeued, failed_sub>>
    /\ UNCHANGED <<twin_vars, hist_twin_vars, sim_vars, start_vars, lock, waiters, rpc, ret>>

\* The awaited _handle_event has returned: _dispatch goes on.
TwinReturn ==
    /\ bus_pc = "await_twin"
    /\ hpc = "idle"
    /\ idx' = after_callback(idx).idx
    /\ bus_pc' = after_callback(idx).bus_pc
    /\ cur_event' = after_callback(idx).cur_event
    /\ UNCHANGED <<queue, subscribers, running, published, dequeued, calls, failed_sub>>
    /\ UNCHANGED <<twin_vars, hist_twin_vars, sim_vars, start_vars, lock_vars>>

\* The producers of this specification publish arrivals only: what is
\* published matters to the twin state, not to whether it is delivered.
PublishArrived ==
    /\ Publish
    /\ published'[Len(published')].type = "PART_ARRIVED"

\* The steps of the task that runs EventBus.run, with the callbacks it awaits.
BusLoopStep ==
    \/ RunGet
    \/ DispatchTwin
    \/ InvokeProbe
    \/ CallbackReturn
    \/ TwinReturn

\* The steps of _handle_event, awaited by the loop.
HandlerStep ==
    \/ HandlerAcquire
    \/ HandlerEnqueue
    \/ HandlerWake
    \/ HandlerBegin
    \/ HandlerFinish
    \/ HandlerRelease

\* The steps of a snapshot caller once it has called acquire.
ReaderStep ==
    \/ ReaderWake
    \/ ReaderSnapshot
    \/ ReaderRelease

NextLive ==
    \/ Subscribe
    \/ PublishArrived
    \/ RunGet
    \/ DispatchTwin
    \/ InvokeProbe
    \/ CallbackReturn
    \/ CallbackRaise
    \/ TwinReturn
    \/ HandlerAcquire
    \/ HandlerEnqueue
    \/ HandlerWake
    \/ HandlerBegin
    \/ HandlerFinish
    \/ HandlerRelease
    \/ ReaderAcquire
    \/ ReaderEnqueue
    \/ ReaderWake
    \/ ReaderSnapshot
    \/ ReaderRelease

\* The event loop runs every task that is ready.  The run loop and the
\* handler it awaits are one task, which takes its next step when that stays
\* possible; so does a snapshot caller that has called acquire.  Producers,
\* new subscriptions and new snapshot calls are free to happen or not.
FairLive ==
    /\ WF_vars(BusLoopStep \/ HandlerStep)
    /\ WF_vars(ReaderStep)

SpecLive == Init /\ [][NextLive]_vars /\ FairLive

\* ==================================== SpecSim: the simulator on the bus

\* f with the key k added (or replaced) with value v.
With(f, k, v) == [x \in (DOMAIN f) \cup {k} |-> IF x = k THEN v ELSE f[x]]

\* await self._bus.publish(event) by a task of the simulator.
SimPublish(event) ==
    /\ queue' = queue_put(queue, event)
    /\ published' = Append(published, event)

\* One turn of SortingCellSimulator.run after its sleep: the part_id is taken
\* from _part_counter, PART_ARRIVED is published, then the part's
\* _process_part task is created.
SimArrive ==
    /\ part_counter < NParts
    /\ part_counter' = part_counter + 1
    /\ SimPublish(Event("PART_ARRIVED", Now, part_counter, "none"))
    /\ task_pc' = With(task_pc, part_counter, "sensor")
    /\ task_ok' = With(task_ok, part_counter, FALSE)
    /\ UNCHANGED <<subscribers, bus_pc, cur_event, idx, running, dequeued, calls, failed_sub>>
    /\ UNCHANGED <<twin_vars, hist_twin_vars, start_vars, lock_vars>>

\* _process_part after the sensor delay: is_ok is drawn, SENSOR_READ published.
TaskSensor ==
    \E p \in DOMAIN task_pc, is_ok \in BOOLEAN :
        /\ task_pc[p] = "sensor"
        /\ task_ok' = [task_ok EXCEPT ![p] = is_ok]
        /\ SimPublish(Event("SENSOR_READ", Now, p, "none"))
        /\ task_pc' = [task_pc EXCEPT ![p] = "actuator"]
        /\ UNCHANGED <<subscribers, bus_pc, cur_event, idx, running, dequeued, calls, failed_sub>>
        /\ UNCHANGED <<twin_vars, hist_twin_vars, start_vars, lock_vars, part_counter>>

\* _process_part after the actuator delay: ACTUATOR_TRIGGERED is published
\* and, with no suspension in between (a put on the unbounded queue returns
\* at once), PART_SORTED with the outcome of is_ok; the task ends.
TaskActuator ==
    \E p \in DOMAIN task_pc :
        /\ task_pc[p] = "actuator"
        /\ LET e_act == Event("ACTUATOR_TRIGGERED", Now, p, "none")
               e_sorted == Event("PART_SORTED", Now + 1, p,
                                 IF task_ok[p] THEN "ok" ELSE "nok")
           IN  /\ queue' = queue_put(queue_put(queue, e_act), e_sorted)
               /\ published' = Append(Append(published, e_act), e_sorted)
        /\ task_pc' = [task_pc EXCEPT ![p] = "done"]
        /\ UNCHANGED <<subscribers, bus_pc, cur_event, idx, running, dequeued, calls, failed_sub>>
        /\ UNCHANGED <<twin_vars, hist_twin_vars, start_vars, lock_vars, part_counter, task_ok>>

\* The tasks api/server.py starts: sim.run() with the _process_part tasks it
\* creates, and bus.run() dispatching to the twin, the only subscriber.
NextSim ==
    \/ SimArrive
    \/ TaskSensor
    \/ TaskActuator
    \/ RunGet
    \/ InvokeTwin

SpecSim == Init /\ [][NextSim]_vars

\* ================================================================= claims

\* The transition table as the specification states it (section 4.3).
TableAccepts(status) ==
    CASE status = "CREATED"       -> "PART_ARRIVED"
      [] status = "ON_CONVEYOR"   -> "SENSOR_READ"
      [] status = "AT_SENSOR"     -> "ACTUATOR_TRIGGERED"
      [] status = "READY_TO_SORT" -> "PART_SORTED"
      [] OTHER                    -> "nothing"

TableNewStatus(type, outcome) ==
    CASE type = "PART_ARRIVED"       -> "ON_CONVEYOR"
      [] type = "SENSOR_READ"        -> "AT_SENSOR"
      [] type = "ACTUATOR_TRIGGERED" -> "READY_TO_SORT"
      [] type = "PART_SORTED"        -> IF outcome = "ok" THEN "SORTED_OK" ELSE "SORTED_NOK"

\* This step is one call of handle_event; the event is last_handled'.
HandleStep == n_handled' = n_handled + 1

\* C1: an event whose type is not the one accepted from its part's current
\* status (sorted parts accept nothing, a repeated event is not accepted)
\* sets error_flag and cell_state = ERROR and leaves the part's status,
\* total_processed and total_rejected as they were.
C1_RejectedEvent ==
    [][ LET e == last_handled'
            st == StatusSeen(parts, e.part_id)
        IN  (HandleStep /\ e.type # TableAccepts(st))
            => /\ error_flag' = TRUE
               /\ cell_state' = "ERROR"
               /\ parts'[e.part_id].status = st
               /\ total_processed' = total_processed
               /\ total_rejected' = total_rejected ]_vars

\* A sorted part has just been sent SENSOR_READ again and the cell is in ERROR.
C1_Witness ==
    /\ last_handled # NoEvent
    /\ last_handled.type = "SENSOR_READ"
    /\ last_handled.part_id \in DOMAIN parts
    /\ parts[last_handled.part_id].status = "SORTED_OK"
    /\ error_flag /\ cell_state = "ERROR"
    /\ total_processed = 1

\* Four events handled, all for one part, none rejected: the canonical
\* sequence for that part from an empty twin.
CanonicalRunDone ==
    n_handled = 4 /\ Cardinality(DOMAIN parts) = 1 /\ ~rejected_seen

\* C2: an accepted event moves its part to exactly the status of the
\* transition table; only PART_SORTED changes a counter (total_processed + 1,
\* and total_rejected + 1 when the outcome is nok); after the four-event
\* canonical sequence for one part the part is sorted, parts_in_system = 1
\* and error = false.
C2_TransitionTable ==
    /\ [][ LET e == last_handled'
               st == StatusSeen(parts, e.part_id)
           IN  (HandleStep /\ e.type = TableAccepts(st))
               => /\ parts'[e.part_id].status = TableNewStatus(e.type, e.outcome)
                  /\ total_processed' = total_processed +
                        (IF e.type = "PART_SORTED" THEN 1 ELSE 0)
                  /\ total_rejected' = total_rejected +
                        (IF e.type = "PART_SORTED" /\ e.outcome = "nok" THEN 1 ELSE 0)
                  /\ \A p \in DOMAIN parts \ {e.part_id} : parts'[p] = parts[p] ]_vars
    /\ [](CanonicalRunDone =>
            /\ \A p \in DOMAIN parts :
                  parts[p].status =
                     (IF total_rejected = 1 THEN "SORTED_NOK" ELSE "SORTED_OK")
            /\ snapshot(Self).total_processed = 1
            /\ snapshot(Self).parts_in_system = 1
            /\ snapshot(Self).error = FALSE)

\* The canonical sequence PART_ARRIVED .. PART_SORTED(ok) has just ended.
C2_Witness ==
    /\ CanonicalRunDone
    /\ last_handled.type = "PART_SORTED" /\ last_handled.outcome = "ok"
    /\ parts[last_handled.part_id].status = "SORTED_OK"
    /\ snapshot(Self) = [cell_state |-> "RUNNING", total_processed |-> 1,
                         total_rejected |-> 0, parts_in_system |-> 1,
                         error |-> FALSE]

\* C3: while every part's events have respected the canonical order (no
\* event was rejected), total_processed is the number of PART_SORTED events
\* applied and total_rejected the number of them with outcome nok.
C3_CountersMatchSorted ==
    ~rejected_seen =>
        /\ total_processed = sorted_applied
        /\ total_rejected = sorted_nok

\* One part sorted nok in canonical order while a second part has arrived.
C3_Witness ==
    /\ ~rejected_seen
    /\ Cardinality(DOMAIN parts) = 2
    /\ sorted_applied = 1 /\ sorted_nok = 1
    /\ total_processed = 1 /\ total_rejected = 1

\* C4: total_rejected <= total_processed in every state, whatever the events
\* were, and no step decreases either counter.
C4_RejectedAtMostProcessed ==
    /\ [](total_rejected <= total_processed)
    /\ [][ /\ total_processed' >= total_processed
           /\ total_rejected' >= total_rejected ]_vars

\* Invalid events were mixed in and both counters have moved.
C4_Witness ==
    /\ rejected_seen
    /\ total_processed = 1 /\ total_rejected = 1
    /\ Cardinality(DOMAIN parts) = 2

\* C5: error_flag is true exactly when some handled event was rejected by
\* validate_sequence, and no step sets it back to false.
C5_ErrorFlagIffRejected ==
    /\ [](error_flag <=> rejected_seen)
    /\ [][ error_flag => error_flag' ]_vars

\* The first event was rejected, the second (for another part) was applied,
\* and the flag is still up.
C5_Witness ==
    /\ error_flag
    /\ n_handled = 2
    /\ Cardinality(DOMAIN parts) = 2
    /\ last_handled.type = "PART_ARRIVED"
    /\ parts[last_handled.part_id].status = "ON_CONVEYOR"

\* C6: cell_state is IDLE exactly while no event has been handled; the cell
\* leaves IDLE during the first handle_event, whatever the event's type, and
\* neither handle_event nor check_blocked brings it back to IDLE.
C6_IdleOnlyBeforeFirstEvent ==
    /\ [](cell_state = "IDLE" <=> n_handled = 0)
    /\ [][ /\ (cell_state # "IDLE" => cell_state' # "IDLE")
           /\ (cell_state = "IDLE" /\ cell_state' # "IDLE"
                 => HandleStep /\ n_handled = 0) ]_vars

\* The first event handled was a PART_SORTED; the cell has left IDLE.
C6_Witness ==
    /\ n_handled = 1
    /\ last_handled.type = "PART_SORTED"
    /\ cell_state # "IDLE"

\* C7: once cell_state is ERROR it is ERROR after every later handle_event
\* and every later check_blocked.
C7_ErrorIsSticky ==
    [][ cell_state = "ERROR" => cell_state' = "ERROR" ]_vars

\* ------------------------------------------------------- EventBus claims

\* Position of an event in the order of completed publish calls.
PubIndex(event) == CHOOSE k \in 1..Len(published) : published[k] = event

\* The events subscriber i has been invoked with, in order of invocation.
Observed(i) ==
    LET F[k \in 0..Len(calls)] ==
            IF k = 0 THEN <<>>
            ELSE IF calls[k].sub = i THEN Append(F[k - 1], calls[k].event)
                 ELSE F[k - 1]
    IN  F[Len(calls)]

\* The subscribers invoked with one event in the invocation log c, in order.
InvokedIn(c, event) ==
    LET F[k \in 0..Len(c)] ==
            IF k = 0 THEN <<>>
            ELSE IF c[k].event = event THEN Append(F[k - 1], c[k].sub)
                 ELSE F[k - 1]
    IN  F[Len(c)]

InvokedFor(event) == InvokedIn(calls, event)

IsSuffix(s, t) == Len(s) <= Len(t) /\ s = SubSeq(t, Len(t) - Len(s) + 1, Len(t))

\* C8: events leave the queue in the order their publish calls completed,
\* none twice and none skipped (the dequeued events followed by the queue
\* are the published events), every subscriber is invoked with e1 before e2
\* when e1 was published first, and the invocations as a whole follow that
\* one order.
C8_FifoDispatch ==
    /\ dequeued \o queue = published
    /\ \A a, b \in 1..Len(calls) :
          a < b =>
             /\ PubIndex(calls[a].event) <= PubIndex(calls[b].event)
             /\ calls[a].sub = calls[b].sub
                   => PubIndex(calls[a].event) < PubIndex(calls[b].event)

\* Two events, a SENSOR_READ and then a PART_ARRIVED, have been published and
\* both have gone through two subscribers in that order.
C8_Witness ==
    /\ Len(dequeued) = 2
    /\ bus_pc = "get"
    /\ Len(Observed(1)) = 2 /\ Len(Observed(2)) = 2
    /\ Observed(1) = SubSeq(published, 1, 2)
    /\ Observed(1)[1].type = "SENSOR_READ"
    /\ Observed(1)[2].type = "PART_ARRIVED"

C10_FailureHaltsDispatch ==
    /\ [](failed_sub # 0 =>
            /\ bus_pc = "halted"
            /\ idx = failed_sub
            /\ InvokedFor(cur_event)[Len(InvokedFor(cur_event))] = failed_sub
            /\ \A k \in 1..Len(calls) :
                  calls[k].event = cur_event => calls[k].sub <= failed_sub)
    /\ [][ failed_sub # 0 =>
             /\ calls' = calls
             /\ dequeued' = dequeued
             /\ Len(queue') >= Len(queue)
             /\ failed_sub' = failed_sub
             /\ twin_vars' = twin_vars ]_vars

\* The second of three subscribers failed on the first event; the third was
\* never invoked, and an event published since then sits in the queue.
C10_Witness ==
    /\ bus_pc = "halted"
    /\ failed_sub = 2
    /\ Len(subscribers) = 3
    /\ Len(dequeued) = 1
    /\ Len(queue) = 1
    /\ Observed(2) = <<dequeued[1]>>
    /\ Observed(3) = <<>>
    /\ n_handled = 1

\* C14: a sequence violation is not fatal.  Once an event has been rejected,
\* every later handle_event call whose event is the one accepted from its
\* part's status still moves the part to the status of the transition table
\* and updates total_processed and total_rejected as the table says, for the
\* offending part and for any other part, and no handle_event call takes the
\* cell out of ERROR.
C14_RejectionNonFatal ==
    [][ LET e == last_handled'
            st == StatusSeen(parts, e.part_id)
        IN  (HandleStep /\ rejected_seen)
            => /\ (cell_state = "ERROR" => cell_state' = "ERROR")
               /\ (e.type = TableAccepts(st)
                   => /\ parts'[e.part_id].status = TableNewStatus(e.type, e.outcome)
                      /\ total_processed' = total_processed +
                            (IF e.type = "PART_SORTED" THEN 1 ELSE 0)
                      /\ total_rejected' = total_rejected +
                            (IF e.type = "PART_SORTED" /\ e.outcome = "nok"
                             THEN 1 ELSE 0)) ]_vars

\* Three events: the first, at time 0, was rejected; after it the offending
\* part and a second part have both arrived, and the cell is still in ERROR.
C14_Witness ==
    /\ n_handled = 3 /\ rejected_seen
    /\ cell_state = "ERROR" /\ error_flag
    /\ system_start_time = 0
    /\ DOMAIN parts = {1, 2}
    /\ \A p \in {1, 2} : parts[p].status = "ON_CONVEYOR" /\ parts[p].last_timestamp > 0

\* C17: the parts map holds exactly the part_ids of the events handled so
\* far, accepted or rejected; no part is ever removed and parts_in_system
\* never decreases; the first event naming an unseen part_id adds the part,
\* and when that event is not PART_ARRIVED the part is left CREATED with
\* error_flag set and cell_state ERROR.
C17_PartsAreReferencedIds ==
    /\ [](DOMAIN parts = referenced)
    /\ [][ /\ DOMAIN parts \subseteq DOMAIN parts'
           /\ snapshot(Self).parts_in_system <= snapshot(Self)'.parts_in_system
           /\ LET e == last_handled'
              IN  (HandleStep /\ e.part_id \notin DOMAIN parts)
                  => /\ e.part_id \in DOMAIN parts'
                     /\ IF e.type = "PART_ARRIVED"
                        THEN parts'[e.part_id].status = "ON_CONVEYOR"
                        ELSE /\ parts'[e.part_id].status = "CREATED"
                             /\ error_flag' = TRUE
                             /\ cell_state' = "ERROR" ]_vars

\* The first event for part 2 was not PART_ARRIVED: part 2 is in the map,
\* CREATED, beside part 1 which arrived normally; the cell is in ERROR.
C17_Witness ==
    /\ referenced = {1, 2}
    /\ parts[1].status = "ON_CONVEYOR"
    /\ parts[2].status = "CREATED"
    /\ last_handled.part_id = 2 /\ last_handled.type = "PART_SORTED"
    /\ error_flag /\ cell_state = "ERROR"

\* C18: after every handle_event call last_event_time is the timestamp of
\* the event just handled, whether it was accepted or rejected; a rejected
\* event for a part already in the map leaves that part's last_timestamp as
\* it was.
C18_LastEventTimeIsEventTime ==
    [][ LET e == last_handled'
        IN  HandleStep
            => /\ last_event_time' = e.timestamp
               /\ (~Accepted(Self, e) /\ e.part_id \in DOMAIN parts)
                  => parts'[e.part_id].last_timestamp
                        = parts[e.part_id].last_timestamp ]_vars

\* The last event, at the late instant, was rejected: last_event_time is its
\* timestamp while its part, which arrived earlier, keeps the earlier
\* last_timestamp.
C18_Witness ==
    /\ last_handled # NoEvent
    /\ last_handled.timestamp = LateTime
    /\ last_event_time = LateTime
    /\ last_handled.part_id \in DOMAIN parts
    /\ parts[last_handled.part_id].status = "ON_CONVEYOR"
    /\ parts[last_handled.part_id].last_timestamp < LateTime
    /\ error_flag

\* Position of a status along the lifecycle; the two sorted statuses are the
\* two ends of the last step.
StatusRank(status) ==
    CASE status = "CREATED"       -> 0
      [] status = "ON_CONVEYOR"   -> 1
      [] status = "AT_SENSOR"     -> 2
      [] status = "READY_TO_SORT" -> 3
      [] status = "SORTED_OK"     -> 4
      [] status = "SORTED_NOK"    -> 4

SortedStatus == {"SORTED_OK", "SORTED_NOK"}

\* C19: in every step each part keeps its status or advances exactly one
\* position along CREATED, ON_CONVEYOR, AT_SENSOR, READY_TO_SORT, sorted; a
\* part never goes back, never skips, a sorted part never changes again, a new
\* part enters at the head of the chain, and each sorted part is counted once:
\* total_processed is the number of sorted parts and total_rejected the number
\* of SORTED_NOK parts.
C19_OneStepForward ==
    /\ [](/\ total_processed
              = Cardinality({p \in DOMAIN parts : parts[p].status \in SortedStatus})
          /\ total_rejected
              = Cardinality({p \in DOMAIN parts : parts[p].status = "SORTED_NOK"}))
    /\ [][ /\ \A p \in DOMAIN parts :
                /\ p \in DOMAIN parts'
                /\ (parts'[p].status # parts[p].status
                    => StatusRank(parts'[p].status) = StatusRank(parts[p].status) + 1)
                /\ (parts[p].status \in SortedStatus
                    => parts'[p].status = parts[p].status)
           /\ \A p \in DOMAIN parts' \ DOMAIN parts :
                parts'[p].status \in {"CREATED", "ON_CONVEYOR"} ]_vars

\* Five events for one part: it went through the whole chain to SORTED_NOK,
\* one more event was sent to it, and it is counted once in each counter.
C19_Witness ==
    /\ n_handled = 5
    /\ DOMAIN parts = {1}
    /\ parts[1].status = "SORTED_NOK"
    /\ total_processed = 1 /\ total_rejected = 1
    /\ error_flag

\* Two quotients denote the same number.
SameNumber(a, b) == a.num * b.den = b.num * a.den

\* C15: with non-decreasing event timestamps, metrics_snapshot reports
\* observation_window = 0 before any event and, once an event has been
\* handled, observation_window = last_event_time - system_start_time, the
\* time from the first handled event to the last; when that window is
\* positive, throughput is total_processed divided by it.
C15_ObservationWindow ==
    LET m == metrics_snapshot(Self)
    IN  /\ (n_handled = 0 => m.observation_window = 0)
        /\ (n_handled > 0
            => m.observation_window = last_event_time - system_start_time)
        /\ (m.observation_window > 0
            => SameNumber(m.throughput,
                          Quotient(total_processed, m.observation_window)))

\* C16: metrics_snapshot never divides by zero (reject_rate is 0.0 when
\* total_processed = 0, throughput is 0.0 when the observation window is 0),
\* and as long as no PART_SORTED event has been applied both reject_rate and
\* throughput are 0.
C16_MetricsGuarded ==
    LET m == metrics_snapshot(Self)
    IN  /\ m.reject_rate.den # 0
        /\ m.throughput.den # 0
        /\ (total_processed = 0 => m.reject_rate = Zero)
        /\ (m.observation_window = 0 => m.throughput = Zero)
        /\ (sorted_applied = 0
            => SameNumber(m.reject_rate, Zero) /\ SameNumber(m.throughput, Zero))

\* Three events handled, the first at time 1 and the last at the late
\* instant, none of them an applied PART_SORTED: the window is positive and
\* the throughput is 0 parts over that window.
C16_Witness ==
    /\ n_handled = 3 /\ sorted_applied = 0
    /\ system_start_time = 1 /\ last_event_time = LateTime
    /\ metrics_snapshot(Self).observation_window = LateTime - 1
    /\ metrics_snapshot(Self).throughput = Quotient(0, LateTime - 1)
    /\ metrics_snapshot(Self).reject_rate = Zero

\* C13: inactivity is detected at the latest on the next event: whenever
\* handle_event accepts an event whose timestamp exceeds the timestamp of the
\* previously handled event by more than blocked_threshold, cell_state is
\* BLOCKED after the call, unless the cell is in ERROR.
C13_BlockedOnNextEvent ==
    [][ LET e == last_handled'
        IN  (/\ HandleStep
             /\ n_handled > 0
             /\ Accepted(Self, e)
             /\ e.timestamp - last_handled.timestamp > blocked_threshold
             /\ cell_state # "ERROR")
            => cell_state' = "BLOCKED" ]_vars

\* The tasks that are inside "async with self._lock".
InCritical ==
    (IF hpc \in {"begin", "finish", "release"} THEN {HandlerTask} ELSE {})
        \cup {r \in Readers : rpc[r] \in {"locked", "release"}}

\* C11: the event handler and the snapshot methods exclude each other: at most
\* one of them is inside the critical section at any time, and every value a
\* snapshot method is about to return is the snapshot of the twin state as it
\* was after the last fully applied event, never of a state in which an event
\* is half applied, whatever the interleaving of handler and callers.
C11_SnapshotsAreAtomic ==
    /\ Cardinality(InCritical) <= 1
    /\ \A r \in Readers :
          rpc[r] = "release" => ret[r].value = SnapshotOf(ret[r].kind, committed)

\* A caller holds the lock with its parts snapshot taken after one event,
\* while the handler waits at the lock with the next event and the other
\* caller is outside.
C11_Witness ==
    /\ n_handled = 1
    /\ hpc = "waiting"
    /\ \E r \in Readers :
          /\ rpc[r] = "release"
          /\ lock
          /\ ret[r].kind = "parts"
          /\ ret[r].value = parts_snapshot(Self)
          /\ ret[r].value # {}

\* C12: constructing the DigitalTwin at start-up, with the blocked_threshold
\* of the loaded configuration, succeeds, subscribes the twin's handler to the
\* bus and yields an empty TwinState whose blocked_threshold is the configured
\* value; that value never changes afterwards.
C12_ConfiguredThreshold ==
    /\ [](startup # "none"
          => /\ startup = "constructed"
             /\ \E i \in 1..Len(subscribers) : subscribers[i] = "twin"
             /\ blocked_threshold = config_threshold)
    /\ [][ (startup = "none" /\ startup' # "none")
           => Self' = [TwinState EXCEPT !.blocked_threshold = config_threshold] ]_vars
    /\ [][ startup # "none" => blocked_threshold' = blocked_threshold ]_vars

\* The task that published an event of the simulator: the run loop (-1) for
\* PART_ARRIVED, the _process_part task of the part otherwise.
Producer(event) == IF event.type = "PART_ARRIVED" THEN -1 ELSE event.part_id

\* C20: with the run loop and the per-part tasks of the simulator publishing
\* concurrently, the twin applies the events in dequeue order, and that order
\* keeps each producer's own publish order; as every part's events are
\* published in canonical order with a fresh part_id per part, no event is
\* rejected under any interleaving of the tasks: error_flag stays false and
\* cell_state never becomes ERROR.
C20_SimulatorNeverRejected ==
    /\ Len(calls) <= Len(dequeued)
    /\ \A i \in 1..Len(calls) : calls[i].event = dequeued[i]
    /\ \A i, j \in 1..Len(dequeued) :
          (i < j /\ Producer(dequeued[i]) = Producer(dequeued[j]))
          => PubIndex(dequeued[i]) < PubIndex(dequeued[j])
    /\ ~rejected_seen
    /\ ~error_flag
    /\ cell_state # "ERROR"

\* Two parts whose tasks ran interleaved (both had arrived before either was
\* read by the sensor) have been sorted, one ok and one nok, with no error.
C20_Witness ==
    /\ part_counter >= 2
    /\ Len(dequeued) >= 2
    /\ dequeued[1].type = "PART_ARRIVED" /\ dequeued[2].type = "PART_ARRIVED"
    /\ total_processed = 2 /\ total_rejected = 1
    /\ ~error_flag /\ cell_state = "RUNNING"

\* The dispatch of the k-th dequeued event is over: every callback of the
\* subscriber list has been awaited for it.
DispatchCompleted(k) ==
    \/ Len(dequeued) > k
    \/ Len(dequeued) = k /\ bus_pc = "get"

\* C21: publish returns as soon as the event is in the queue: it is possible
\* whatever the loop, the handler and the lock are doing, it only appends the
\* event to the queue, it invokes no subscriber and applies nothing.  A
\* dispatch that ends has invoked every subscriber of the list with the event
\* and the twin has applied it.  And as long as no callback fails, with the
\* loop and the lock holders weakly fair, every published event is eventually
\* dispatched to the end and applied to the twin state, even with snapshot
\* callers taking the lock again and again.
C21_EventuallyDelivered ==
    /\ [](Len(published) < MaxPublish => ENABLED PublishArrived)
    /\ [][ Len(published') > Len(published)
           => /\ queue' = Append(queue, published'[Len(published')])
              /\ calls' = calls
              /\ dequeued' = dequeued
              /\ twin_vars' = twin_vars
              /\ bus_pc' = bus_pc ]_vars
    /\ [][ (bus_pc # "get" /\ bus_pc' = "get")
           => /\ Len(InvokedIn(calls', cur_event)) = Len(subscribers)
              /\ n_handled' = Len(dequeued) ]_vars
    /\ \A k \in 1..MaxPublish :
          (Len(published) >= k)
          ~> (failed_sub # 0 \/ (n_handled >= k /\ DispatchCompleted(k)))

\* One event has been applied; the handler of the next one has joined the
\* waiters of the lock, which a snapshot caller holds.
C21_Witness ==
    /\ n_handled = 1
    /\ Len(published) = 2
    /\ hpc = "queued"
    /\ waiters = <<HandlerTask>>
    /\ lock
    /\ \E r \in Readers : rpc[r] \in {"locked", "release"}
    /\ failed_sub = 0
====
